---------------------------- MODULE Spec2Model ----------------------------
(***************************************************************************)
(* voice_link_backend: user registration, login, session tokens (JWT) and  *)
(* password reset.  The store (PostgreSQL through GORM) is the shared      *)
(* state; every HTTP request runs in its own goroutine, so a use-case      *)
(* method that reads the store and later writes it is split at its store   *)
(* calls and other requests may run in between.                            *)
(***************************************************************************)
EXTENDS Integers, Sequences, FiniteSets, TLC

(* ------------------------------ bounds -------------------------------- *)
\* rows the store may ever hold (ids handed out by the primary key)
MaxUsers == 2
\* last instant the ticking clock reaches, in ticks; later instants are
\* reached by sleeping
MaxNow == 2
\* clock resolution: ticks per second; time.Time is finer than Unix()
TicksPerSec == 2

(* ------------------------- program constants -------------------------- *)
\* time.Hour, in seconds
HourSecs == 3600
\* Login: time.Now().Add(time.Hour * 24)
SessionHours == 24
\* bcrypt: GenerateFromPassword rejects passwords longer than this
BcryptMaxBytes == 72

HourTicks == HourSecs * TicksPerSec
SessionTicks == SessionHours * HourTicks
\* RequestPasswordReset: time.Now().Add(time.Hour)
ResetTicks == HourTicks

(* --------------------------- input domains ---------------------------- *)
\* concurrent requests
Procs == {"r1", "r2"}
UserIDs == 1..MaxUsers

\* A password is its first BcryptMaxBytes bytes (head) and its length; two
\* passwords with the same head and different lengths differ only after
\* byte BcryptMaxBytes.
PwShort1 == [head |-> "p1", len |-> BcryptMaxBytes]
PwShort2 == [head |-> "p2", len |-> 8]
PwLong == [head |-> "p1", len |-> BcryptMaxBytes + 1]

\* what the requests of a run may carry: names, emails, passwords and the
\* values crypto/rand may return: reset tokens (32 random bytes, hex
\* encoded) and bcrypt salts
Inputs(names, emails, passwords, tokens, salts) ==
    [names |-> names, emails |-> emails, passwords |-> passwords,
     tokens |-> tokens, salts |-> salts]

NULL == "NULL"
NoTime == -1
OK == "ok"

(* ------------------------------ errors -------------------------------- *)
ErrEmailExists == "email already exists"
ErrInvalidCredentials == "invalid email or password"
ErrResetInvalid == "invalid or expired reset token"
ErrResetExpired == "reset token has expired"
\* gorm.ErrRecordNotFound
ErrRecordNotFound == "record not found"
\* PostgreSQL unique_violation surfaced by GORM
ErrDuplicateKey == "duplicate key value violates unique constraint"
\* bcrypt.ErrPasswordTooLong
ErrPasswordTooLong == "bcrypt: password length exceeds 72 bytes"

(* ------------------------------ bcrypt -------------------------------- *)
\* the Blowfish key schedule reads at most BcryptMaxBytes bytes of the key
Digest(salt, pw) == <<"bcrypt", salt, pw.head>>

GenerateFromPassword(pw, salt) ==
    IF pw.len > BcryptMaxBytes
    THEN [err |-> ErrPasswordTooLong, hash |-> NULL]
    ELSE [err |-> OK, hash |-> [salt |-> salt, digest |-> Digest(salt, pw)]]

\* mutant: only the format of the hash is looked at
CompareHashAndPassword_FormatOnly(hash, pw) == hash.digest[1] = "bcrypt"

\* TRUE when the comparison returns nil
CompareHashAndPassword(hash, pw) == Digest(hash.salt, pw) = hash.digest

(* ------------------------------- store -------------------------------- *)
NoUser == [id |-> 0, name |-> NULL, email |-> NULL, password |-> NULL,
           resetToken |-> NULL, resetExpires |-> NoTime]

\* model.User; CreatedAt / UpdatedAt are store-managed and not modelled
User(id, name, email, password, token, expires) ==
    [id |-> id, name |-> name, email |-> email, password |-> password,
     resetToken |-> token, resetExpires |-> expires]

Min(S) == CHOOSE x \in S : \A y \in S : x <= y

\* gorm First: the row with the smallest primary key among the matches
FirstOf(us, S) ==
    IF S = {} THEN [err |-> ErrRecordNotFound, user |-> NoUser]
    ELSE [err |-> OK, user |-> us[Min(S)]]

FindByID(us, id) == FirstOf(us, {i \in DOMAIN us : i = id})

FindByEmail(us, email) == FirstOf(us, {i \in DOMAIN us : us[i].email = email})

\* not implemented by the repository under src/: exact match on the column
FindByPasswordResetToken(us, token) ==
    FirstOf(us, {i \in DOMAIN us : us[i].resetToken = token})

\* mutant: only the email has a unique index
UniqueViolation_EmailOnly(us, u) ==
    \E i \in DOMAIN us : i # u.id /\ us[i].email = u.email

\* the unique indexes of model.User: email, and password_reset_token where
\* it is not NULL
UniqueViolation(us, u) ==
    \E i \in DOMAIN us :
        /\ i # u.id
        /\ \/ us[i].email = u.email
           \/ u.resetToken # NULL /\ us[i].resetToken = u.resetToken

Put(us, u) == [i \in DOMAIN us \cup {u.id} |-> IF i = u.id THEN u ELSE us[i]]

\* mutant: the table has no unique index
Create_NoUniqueIndex(us, nid, u) ==
    [err |-> OK, users |-> Put(us, [u EXCEPT !.id = nid]), id |-> nid]

\* db.Create: INSERT with the next primary key
Create(us, nid, u) ==
    IF UniqueViolation(us, [u EXCEPT !.id = nid])
    THEN [err |-> ErrDuplicateKey, users |-> us, id |-> 0]
    ELSE [err |-> OK, users |-> Put(us, [u EXCEPT !.id = nid]), id |-> nid]

\* mutant: the table has no unique index
Update_NoUniqueIndex(us, u) == [err |-> OK, users |-> Put(us, u)]

\* mutant: the email column of an existing row is not written
Update_EmailNotWritten(us, u) ==
    IF UniqueViolation(us, u)
    THEN [err |-> ErrDuplicateKey, users |-> us]
    ELSE [err |-> OK,
          users |-> Put(us, IF u.id \in DOMAIN us
                            THEN [u EXCEPT !.email = us[u.id].email]
                            ELSE u)]

\* db.Save: UPDATE of every column by primary key; when no row is affected
\* GORM falls back to INSERT ... ON CONFLICT DO UPDATE
Update(us, u) ==
    IF UniqueViolation(us, u)
    THEN [err |-> ErrDuplicateKey, users |-> us]
    ELSE [err |-> OK, users |-> Put(us, u)]

\* db.Delete: no error when no row matches
Delete(us, id) ==
    [err |-> OK, users |-> [i \in DOMAIN us \ {id} |-> us[i]]]

(* ---------------------------- session token --------------------------- *)
\* os.Getenv("JWT_SECRET"): read on every call, never written
Secret == "JWT_SECRET"
HMACAlgs == {"HS256", "HS384", "HS512"}

\* time.Time -> Unix(): whole seconds, the fraction is dropped
Unix(t) == t \div TicksPerSec
\* the instant a NumericDate of whole seconds denotes
AtSecond(sec) == sec * TicksPerSec

\* HMAC over the encoded header and claims
Mac(alg, uid, exp, iat, key) == <<alg, uid, exp, iat, key>>

\* jwt.NewWithClaims(method, MapClaims{user_id, exp, iat}).SignedString(key)
SignedString(alg, uid, exp, iat, key) ==
    [form |-> "jwt", alg |-> alg, user_id |-> uid, exp |-> exp, iat |-> iat,
     sig |-> Mac(alg, uid, exp, iat, key)]

NoToken == [form |-> "", alg |-> NULL, user_id |-> 0, exp |-> 0, iat |-> 0,
            sig |-> <<>>]

\* mutant: the expiry compared with <= instead of <
ParseWithClaims_ExpInclusive(tok, t) ==
    IF tok.form # "jwt" THEN "token is malformed"
    ELSE IF tok.alg \notin HMACAlgs THEN "token is unverifiable"
    ELSE IF tok.sig # Mac(tok.alg, tok.user_id, tok.exp, tok.iat, Secret)
         THEN "token signature is invalid"
    ELSE IF ~(t <= AtSecond(tok.exp)) THEN "token is expired"
    ELSE OK

\* mutant: the claims are read without verifying the signature
ParseWithClaims_Unverified(tok, t) ==
    IF tok.form # "jwt" THEN "token is malformed"
    ELSE IF ~(t < AtSecond(tok.exp)) THEN "token is expired"
    ELSE OK

\* jwt.ParseWithClaims with the key function of AuthMiddleware; the error it
\* returns, OK for a valid token.  jwt/v5 verifies the signature first and
\* the registered claims after; exp is valid while now is before it.
ParseWithClaims(tok, t) ==
    IF tok.form # "jwt" THEN "token is malformed"
    ELSE IF tok.alg \notin HMACAlgs THEN "token is unverifiable"
    ELSE IF tok.sig # Mac(tok.alg, tok.user_id, tok.exp, tok.iat, Secret)
         THEN "token signature is invalid"
    ELSE IF ~(t < AtSecond(tok.exp)) THEN "token is expired"
    ELSE OK

(* ------------------------------- state -------------------------------- *)
VARIABLES
    users,      \* the users table: primary key -> row
    nextID,     \* the next primary key the table hands out
    now,        \* time.Now(), in ticks
    pc,         \* per request: "idle", or the store call it is about to make
    loc,        \* per request: the arguments and the *model.User it holds
    resp,       \* what the last completed call returned
    spent,      \* history: the reset tokens that have changed a password since
                \* RequestPasswordReset last stored them
    session     \* the client: the token string it keeps, and since when

vars == <<users, nextID, now, pc, loc, resp, spent, session>>

NoArgs == [name |-> NULL, email |-> NULL, password |-> NULL, id |-> 0,
           token |-> NULL]
Args(name, email, password, id, token) ==
    [name |-> name, email |-> email, password |-> password, id |-> id,
     token |-> token]

Idle == [op |-> "idle", args |-> NoArgs, user |-> NoUser]

\* what the middleware answers when no request has reached it
NoOut == [status |-> 0, error |-> NULL, next |-> FALSE, user_id |-> 0]

\* What a call returned: its error (OK for nil), the arguments it was given,
\* the user and the token string it returned.  For Login, iss is the instant
\* of the call.  For a request on a protected route, hdr is its
\* Authorization header, at the instant of the request, out the answer, and
\* token / iss the token string the client holds and when it was issued.
Resp(op, err, args, user, token) ==
    [op |-> op, err |-> err, args |-> args, user |-> user, token |-> token,
     iss |-> NoTime, at |-> NoTime, hdr |-> <<>>, out |-> NoOut]
NoResp == Resp("none", OK, NoArgs, NoUser, NoToken)

\* the client keeps no token
NoSession == [token |-> NoToken, iss |-> NoTime]

Init ==
    /\ users = <<>>
    /\ nextID = 1
    /\ now = 0
    /\ pc = [p \in Procs |-> "idle"]
    /\ loc = [p \in Procs |-> Idle]
    /\ resp = NoResp
    /\ spent = {}
    /\ session = NoSession

\* the call of request p returns: its locals are gone
Return(p, r) ==
    /\ pc' = [pc EXCEPT ![p] = "idle"]
    /\ loc' = [loc EXCEPT ![p] = Idle]
    /\ resp' = r

\* request p goes on to the store call named by at, holding user
Goto(p, at, op, args, user) ==
    /\ pc' = [pc EXCEPT ![p] = at]
    /\ loc' = [loc EXCEPT ![p] = [op |-> op, args |-> args, user |-> user]]
    /\ resp' = resp

(* ------------------------------ Register ------------------------------ *)
\* mutant: the duplicate check is skipped
Register_NoDuplicateCheck(p, D) ==
    /\ pc[p] = "idle"
    /\ \E name \in D.names, email \in D.emails, password \in D.passwords, salt \in D.salts :
        LET a == Args(name, email, password, 0, NULL)
            hashed == GenerateFromPassword(password, salt)
        IN  IF hashed.err # OK
            THEN Return(p, Resp("Register", hashed.err, a, NoUser, NoToken))
            ELSE Goto(p, "create", "Register", a,
                      User(0, name, email, hashed.hash, NULL, NoTime))
    /\ UNCHANGED <<users, nextID, now, spent, session>>

\* Register up to the Create call: the duplicate check and the hashing
Register(p, D) ==
    /\ pc[p] = "idle"
    /\ \E name \in D.names, email \in D.emails, password \in D.passwords, salt \in D.salts :
        LET a == Args(name, email, password, 0, NULL)
            existing == FindByEmail(users, email)
            hashed == GenerateFromPassword(password, salt)
        IN  IF existing.err = OK
            THEN Return(p, Resp("Register", ErrEmailExists, a, NoUser, NoToken))
            ELSE IF hashed.err # OK
            THEN Return(p, Resp("Register", hashed.err, a, NoUser, NoToken))
            ELSE Goto(p, "create", "Register", a,
                      User(0, name, email, hashed.hash, NULL, NoTime))
    /\ UNCHANGED <<users, nextID, now, spent, session>>

\* userRepo.Create and the return of Register
RegisterCreate(p) ==
    /\ pc[p] = "create"
    /\ nextID <= MaxUsers \/ Create(users, nextID, loc[p].user).err # OK
    /\ LET c == Create(users, nextID, loc[p].user)
       IN  /\ users' = c.users
           /\ nextID' = IF c.err = OK THEN nextID + 1 ELSE nextID
           /\ IF c.err # OK
              THEN Return(p, Resp("Register", c.err, loc[p].args, NoUser, NoToken))
              ELSE Return(p, Resp("Register", OK, loc[p].args, users'[c.id], NoToken))
    /\ UNCHANGED <<now, spent, session>>

(* ------------------------------- Login -------------------------------- *)
\* mutant: the id is signed under a claim name the verifier does not read
LoginResult_WrongClaim(us, email, password, t) ==
    LET found == FindByEmail(us, email)
    IN  IF found.err # OK
        THEN [err |-> ErrInvalidCredentials, token |-> NoToken]
        ELSE IF ~CompareHashAndPassword(found.user.password, password)
        THEN [err |-> ErrInvalidCredentials, token |-> NoToken]
        ELSE [err |-> OK,
              token |-> SignedString("HS256", 0, Unix(t + SessionTicks), Unix(t),
                                     Secret)]

\* mutant: an unknown email gets an error of its own
LoginResult_UserNotFound(us, email, password, t) ==
    LET found == FindByEmail(us, email)
    IN  IF found.err # OK
        THEN [err |-> found.err, token |-> NoToken]
        ELSE IF ~CompareHashAndPassword(found.user.password, password)
        THEN [err |-> ErrInvalidCredentials, token |-> NoToken]
        ELSE [err |-> OK,
              token |-> SignedString("HS256", found.user.id,
                                     Unix(t + SessionTicks), Unix(t), Secret)]

\* what Login returns at time t: the error and the token string
LoginResult(us, email, password, t) ==
    LET found == FindByEmail(us, email)
    IN  IF found.err # OK
        THEN [err |-> ErrInvalidCredentials, token |-> NoToken]
        ELSE IF ~CompareHashAndPassword(found.user.password, password)
        THEN [err |-> ErrInvalidCredentials, token |-> NoToken]
        ELSE [err |-> OK,
              token |-> SignedString("HS256", found.user.id,
                                     Unix(t + SessionTicks), Unix(t), Secret)]

Login(p, D) ==
    /\ pc[p] = "idle"
    /\ \E email \in D.emails, password \in D.passwords :
        LET r == LoginResult(users, email, password, now)
        IN  Return(p, [Resp("Login", r.err, Args(NULL, email, password, 0, NULL),
                            NoUser, r.token) EXCEPT !.iss = now])
    /\ UNCHANGED <<users, nextID, now, spent, session>>

(* ------------------------------ GetByID ------------------------------- *)
GetByID(p, D) ==
    /\ pc[p] = "idle"
    /\ \E id \in UserIDs :
        LET found == FindByID(users, id)
        IN  Return(p, Resp("GetByID", found.err, Args(NULL, NULL, NULL, id, NULL),
                           found.user, NoToken))
    /\ UNCHANGED <<users, nextID, now, spent, session>>

(* ----------------------------- UpdateUser ----------------------------- *)
\* mutant: the email of the request is dropped
UpdateUser_KeepsEmail(p, D) ==
    /\ pc[p] = "idle"
    /\ \E id \in UserIDs, name \in D.names, email \in D.emails :
        LET a == Args(name, email, NULL, id, NULL)
            found == FindByID(users, id)
        IN  IF found.err # OK
            THEN Return(p, Resp("UpdateUser", found.err, a, NoUser, NoToken))
            ELSE Goto(p, "save", "UpdateUser", a,
                      [found.user EXCEPT !.name = name])
    /\ UNCHANGED <<users, nextID, now, spent, session>>

\* UpdateUser up to the Update call
UpdateUser(p, D) ==
    /\ pc[p] = "idle"
    /\ \E id \in UserIDs, name \in D.names, email \in D.emails :
        LET a == Args(name, email, NULL, id, NULL)
            found == FindByID(users, id)
        IN  IF found.err # OK
            THEN Return(p, Resp("UpdateUser", found.err, a, NoUser, NoToken))
            ELSE Goto(p, "save", "UpdateUser", a,
                      [found.user EXCEPT !.name = name, !.email = email])
    /\ UNCHANGED <<users, nextID, now, spent, session>>

\* userRepo.Update and the return, for the three methods that end with it
Save(p, op) ==
    /\ pc[p] = "save"
    /\ loc[p].op = op
    /\ LET u == Update(users, loc[p].user)
           tok == loc[p].args.token
       IN  /\ users' = u.users
           /\ spent' = IF u.err # OK THEN spent
                       ELSE IF op = "RequestPasswordReset" THEN spent \ {tok}
                       ELSE IF op = "ResetPassword" THEN spent \cup {tok}
                       ELSE spent
           /\ IF u.err # OK
              THEN Return(p, Resp(op, u.err, loc[p].args, NoUser, NoToken))
              ELSE Return(p, Resp(op, OK, loc[p].args, loc[p].user, NoToken))
    /\ UNCHANGED <<nextID, now, session>>

UpdateUserSave(p) == Save(p, "UpdateUser")

(* ----------------------------- DeleteUser ----------------------------- *)
DeleteUser(p, D) ==
    /\ pc[p] = "idle"
    /\ \E id \in UserIDs :
        LET d == Delete(users, id)
        IN  /\ users' = d.users
            /\ Return(p, Resp("DeleteUser", d.err, Args(NULL, NULL, NULL, id, NULL),
                              NoUser, NoToken))
    /\ UNCHANGED <<nextID, now, spent, session>>

(* ------------------------- RequestPasswordReset ----------------------- *)
\* crypto/rand: any of the values 32 random bytes can take
generateResetToken(D) == D.tokens

\* mutant: the token is stored without its expiry
RequestPasswordReset_NoExpiry(p, D) ==
    /\ pc[p] = "idle"
    /\ \E email \in D.emails, token \in generateResetToken(D) :
        LET a == Args(NULL, email, NULL, 0, token)
            found == FindByEmail(users, email)
        IN  IF found.err # OK
            THEN Return(p, Resp("RequestPasswordReset", OK,
                                Args(NULL, email, NULL, 0, NULL), NoUser, NoToken))
            ELSE Goto(p, "save", "RequestPasswordReset", a,
                      [found.user EXCEPT !.resetToken = token])
    /\ UNCHANGED <<users, nextID, now, spent, session>>

\* mutant: an unknown email is reported to the caller
RequestPasswordReset_ReportsUnknown(p, D) ==
    /\ pc[p] = "idle"
    /\ \E email \in D.emails, token \in generateResetToken(D) :
        LET a == Args(NULL, email, NULL, 0, token)
            found == FindByEmail(users, email)
        IN  IF found.err # OK
            THEN Return(p, Resp("RequestPasswordReset", found.err,
                                Args(NULL, email, NULL, 0, NULL), NoUser, NoToken))
            ELSE Goto(p, "save", "RequestPasswordReset", a,
                      [found.user EXCEPT !.resetToken = token,
                                         !.resetExpires = now + ResetTicks])
    /\ UNCHANGED <<users, nextID, now, spent, session>>

\* mutant: the expiry is the instant of the call
RequestPasswordReset_ExpiresNow(p, D) ==
    /\ pc[p] = "idle"
    /\ \E email \in D.emails, token \in generateResetToken(D) :
        LET a == Args(NULL, email, NULL, 0, token)
            found == FindByEmail(users, email)
        IN  IF found.err # OK
            THEN Return(p, Resp("RequestPasswordReset", OK,
                                Args(NULL, email, NULL, 0, NULL), NoUser, NoToken))
            ELSE Goto(p, "save", "RequestPasswordReset", a,
                      [found.user EXCEPT !.resetToken = token,
                                         !.resetExpires = now])
    /\ UNCHANGED <<users, nextID, now, spent, session>>

\* mutant: a pending token is kept and a second one is not stored
RequestPasswordReset_KeepsPending(p, D) ==
    /\ pc[p] = "idle"
    /\ \E email \in D.emails, token \in generateResetToken(D) :
        LET a == Args(NULL, email, NULL, 0, token)
            found == FindByEmail(users, email)
        IN  IF found.err # OK
            THEN Return(p, Resp("RequestPasswordReset", OK,
                                Args(NULL, email, NULL, 0, NULL), NoUser, NoToken))
            ELSE IF found.user.resetToken # NULL
            THEN Goto(p, "save", "RequestPasswordReset", a, found.user)
            ELSE Goto(p, "save", "RequestPasswordReset", a,
                      [found.user EXCEPT !.resetToken = token,
                                         !.resetExpires = now + ResetTicks])
    /\ UNCHANGED <<users, nextID, now, spent, session>>

\* RequestPasswordReset up to the Update call
RequestPasswordReset(p, D) ==
    /\ pc[p] = "idle"
    /\ \E email \in D.emails, token \in generateResetToken(D) :
        LET a == Args(NULL, email, NULL, 0, token)
            found == FindByEmail(users, email)
        IN  IF found.err # OK
            THEN Return(p, Resp("RequestPasswordReset", OK,
                                Args(NULL, email, NULL, 0, NULL), NoUser, NoToken))
            ELSE Goto(p, "save", "RequestPasswordReset", a,
                      [found.user EXCEPT !.resetToken = token,
                                         !.resetExpires = now + ResetTicks])
    /\ UNCHANGED <<users, nextID, now, spent, session>>

RequestPasswordResetSave(p) == Save(p, "RequestPasswordReset")

(* ---------------------------- ResetPassword --------------------------- *)
\* mutant: the expiry of the token is not checked
ResetLookup_NoExpiry(us, token, t) ==
    LET found == FindByPasswordResetToken(us, token)
    IN  IF found.err # OK
        THEN [err |-> ErrResetInvalid, user |-> NoUser]
        ELSE [err |-> OK, user |-> found.user]

\* the lookup and the expiry check of ResetPassword at time t
ResetLookup(us, token, t) ==
    LET found == FindByPasswordResetToken(us, token)
    IN  IF found.err # OK
        THEN [err |-> ErrResetInvalid, user |-> NoUser]
        ELSE IF found.user.resetExpires = NoTime \/ t > found.user.resetExpires
        THEN [err |-> ErrResetExpired, user |-> NoUser]
        ELSE [err |-> OK, user |-> found.user]

\* mutant: the reset token is left on the user
ResetPassword_KeepToken(p, D) ==
    /\ pc[p] = "idle"
    /\ \E token \in D.tokens, newPassword \in D.passwords, salt \in D.salts :
        LET a == Args(NULL, NULL, newPassword, 0, token)
            found == ResetLookup(users, token, now)
            hashed == GenerateFromPassword(newPassword, salt)
        IN  IF found.err # OK
            THEN Return(p, Resp("ResetPassword", found.err, a, NoUser, NoToken))
            ELSE IF hashed.err # OK
            THEN Return(p, Resp("ResetPassword", hashed.err, a, NoUser, NoToken))
            ELSE Goto(p, "save", "ResetPassword", a,
                      [found.user EXCEPT !.password = hashed.hash])
    /\ UNCHANGED <<users, nextID, now, spent, session>>

\* ResetPassword up to the Update call
ResetPassword(p, D) ==
    /\ pc[p] = "idle"
    /\ \E token \in D.tokens, newPassword \in D.passwords, salt \in D.salts :
        LET a == Args(NULL, NULL, newPassword, 0, token)
            found == ResetLookup(users, token, now)
            hashed == GenerateFromPassword(newPassword, salt)
        IN  IF found.err # OK
            THEN Return(p, Resp("ResetPassword", found.err, a, NoUser, NoToken))
            ELSE IF hashed.err # OK
            THEN Return(p, Resp("ResetPassword", hashed.err, a, NoUser, NoToken))
            ELSE Goto(p, "save", "ResetPassword", a,
                      [found.user EXCEPT !.password = hashed.hash,
                                         !.resetToken = NULL,
                                         !.resetExpires = NoTime])
    /\ UNCHANGED <<users, nextID, now, spent, session>>

ResetPasswordSave(p) == Save(p, "ResetPassword")

(* ------------------------------ AuthHandler --------------------------- *)
\* common.SendMessageResponse / common.SendErrorResponse: status and JSON body
MessageResponse(status, message) ==
    [status |-> status, message |-> message, error |-> NULL]
ErrorResponse(status, error) ==
    [status |-> status, message |-> NULL, error |-> error]

ResetLinkSent == "If the email exists, a password reset link has been sent"

\* mutant: the error of the use case is not reported
HandleRequestPasswordReset_AlwaysOK(err) == MessageResponse(200, ResetLinkSent)

\* AuthHandler.RequestPasswordReset for a well-formed body: the response to
\* the error the use case returned
HandleRequestPasswordReset(err) ==
    IF err # OK THEN ErrorResponse(500, err)
    ELSE MessageResponse(200, ResetLinkSent)

\* c.JSON(status, body)
JSONResponse(status, body) == [status |-> status, body |-> body]

PasswordResetDone == "Password has been reset successfully"

\* mutant: a taken email is reported as a conflict
HandleRegister_Conflict(err, user) ==
    IF err = ErrEmailExists THEN ErrorResponse(409, err)
    ELSE IF err # OK THEN ErrorResponse(500, err)
    ELSE JSONResponse(201, user)

\* AuthHandler.Register for a well-formed body: the response to what the use
\* case returned
HandleRegister(err, user) ==
    IF err # OK THEN ErrorResponse(500, err)
    ELSE JSONResponse(201, user)

\* AuthHandler.Login for a well-formed body
HandleLogin(err, token) ==
    IF err # OK THEN ErrorResponse(401, err)
    ELSE JSONResponse(200, [token |-> token])

\* AuthHandler.ResetPassword for a well-formed body
HandleResetPassword(err) ==
    IF err # OK THEN ErrorResponse(400, err)
    ELSE MessageResponse(200, PasswordResetDone)

(* ---------------------------- AuthMiddleware -------------------------- *)
\* the Authorization header as strings.Split(header, " ") sees it; the empty
\* header is the empty sequence
Bearer(tok) == <<"Bearer", tok>>

\* mutant: an expired token gets a message of its own
AuthResult_ExpiredMessage(hdr, t) ==
    IF hdr = <<>>
    THEN [status |-> 401, error |-> "Authorization header is required",
          next |-> FALSE, user_id |-> 0]
    ELSE IF Len(hdr) # 2 \/ hdr[1] # "Bearer"
    THEN [status |-> 401, error |-> "Invalid authorization header format",
          next |-> FALSE, user_id |-> 0]
    ELSE IF ParseWithClaims(hdr[2], t) = "token is expired"
    THEN [status |-> 401, error |-> "Token expired",
          next |-> FALSE, user_id |-> 0]
    ELSE IF ParseWithClaims(hdr[2], t) # OK
    THEN [status |-> 401, error |-> "Invalid token",
          next |-> FALSE, user_id |-> 0]
    ELSE [status |-> 200, error |-> OK, next |-> TRUE, user_id |-> hdr[2].user_id]

\* mutant: a malformed header is answered like a missing one
AuthResult_OneHeaderMessage(hdr, t) ==
    IF hdr = <<>> \/ Len(hdr) # 2 \/ hdr[1] # "Bearer"
    THEN [status |-> 401, error |-> "Authorization header is required",
          next |-> FALSE, user_id |-> 0]
    ELSE IF ParseWithClaims(hdr[2], t) # OK
    THEN [status |-> 401, error |-> "Invalid token",
          next |-> FALSE, user_id |-> 0]
    ELSE [status |-> 200, error |-> OK, next |-> TRUE, user_id |-> hdr[2].user_id]

\* mutant: the token of a user who is no longer stored is refused
AuthResult_ChecksStore(hdr, t) ==
    IF hdr = <<>>
    THEN [status |-> 401, error |-> "Authorization header is required",
          next |-> FALSE, user_id |-> 0]
    ELSE IF Len(hdr) # 2 \/ hdr[1] # "Bearer"
    THEN [status |-> 401, error |-> "Invalid authorization header format",
          next |-> FALSE, user_id |-> 0]
    ELSE IF ParseWithClaims(hdr[2], t) # OK \/ hdr[2].user_id \notin DOMAIN users
    THEN [status |-> 401, error |-> "Invalid token",
          next |-> FALSE, user_id |-> 0]
    ELSE [status |-> 200, error |-> OK, next |-> TRUE, user_id |-> hdr[2].user_id]

\* the response of the middleware, and whether next(c) ran and with which
\* user_id in the context
AuthResult(hdr, t) ==
    IF hdr = <<>>
    THEN [status |-> 401, error |-> "Authorization header is required",
          next |-> FALSE, user_id |-> 0]
    ELSE IF Len(hdr) # 2 \/ hdr[1] # "Bearer"
    THEN [status |-> 401, error |-> "Invalid authorization header format",
          next |-> FALSE, user_id |-> 0]
    ELSE IF ParseWithClaims(hdr[2], t) # OK
    THEN [status |-> 401, error |-> "Invalid token",
          next |-> FALSE, user_id |-> 0]
    ELSE [status |-> 200, error |-> OK, next |-> TRUE, user_id |-> hdr[2].user_id]

\* token strings a client can send once it holds tok: tok itself, tok with
\* its claims or header edited, tok re-signed with a guessed key, a token
\* the holder of the secret signs with another algorithm, and garbage
OtherKey == "guess"
Presentable(tok) ==
    IF tok = NoToken THEN {[NoToken EXCEPT !.form = "garbage"]}
    ELSE { tok,
           [tok EXCEPT !.user_id = (tok.user_id % MaxUsers) + 1],
           [tok EXCEPT !.exp = tok.exp + SessionHours * HourSecs],
           [tok EXCEPT !.alg = "none", !.sig = <<>>],
           [tok EXCEPT !.alg = "RS256"],
           SignedString("HS256", tok.user_id, tok.exp, tok.iat, OtherKey),
           SignedString("HS384", tok.user_id, tok.exp, tok.iat, Secret),
           [tok EXCEPT !.form = "garbage"] }

Headers(tok) ==
    {<<>>, <<"InvalidFormat">>}
        \cup {Bearer(k) : k \in Presentable(tok)}
        \cup {<<"Basic", tok>>, <<"Bearer", tok, "x">>}

\* the token string the client holds: the one Login returned last
Held ==
    IF session # NoSession THEN session.token
    ELSE IF resp.op \in {"Login", "AuthMiddleware"} THEN resp.token
    ELSE NoToken
HeldSince ==
    IF session # NoSession THEN session.iss
    ELSE IF resp.op \in {"Login", "AuthMiddleware"} THEN resp.iss
    ELSE NoTime

\* a request on a protected route; the handler behind it answers 200
AuthMiddleware ==
    /\ \E hdr \in Headers(Held) :
        resp' = [Resp("AuthMiddleware", OK, NoArgs, NoUser, Held)
                    EXCEPT !.iss = HeldSince, !.at = now, !.hdr = hdr,
                           !.out = AuthResult(hdr, now)]
    /\ UNCHANGED <<users, nextID, now, pc, loc, spent, session>>

\* the client keeps the token string the last Login returned
StoreToken ==
    /\ resp.op = "Login" /\ resp.err = OK
    /\ session.token # resp.token
    /\ session' = [token |-> resp.token, iss |-> resp.iss]
    /\ UNCHANGED <<users, nextID, now, pc, loc, resp, spent>>

(* ------------------------------ UserHandler --------------------------- *)
\* What an echo context holds under "user_id": nothing, or a value with its
\* dynamic type.  A float64 is given in halves (v = 3 is 1.5); the other
\* types carry a number as well, so that only the type tells them apart.
Absent == [type |-> "nil", v |-> 0]
ContextValues ==
    {Absent}
        \cup {[type |-> "uint", v |-> n] : n \in 0..MaxUsers}
        \cup {[type |-> "float64", v |-> h] : h \in 0..(2 * MaxUsers)}
        \cup {[type |-> ty, v |-> n] : ty \in {"int", "string"}, n \in 0..MaxUsers}

\* c.Get("user_id") on the context AuthMiddleware hands to next(c)
ContextOf(out) ==
    IF out.next THEN [type |-> "uint", v |-> out.user_id] ELSE Absent

\* mutant: an int is taken for a user id as well
TypeSwitch_IntAccepted(userID) ==
    IF userID.type \in {"uint", "int"} THEN userID.v
    ELSE IF userID.type = "float64" THEN userID.v \div 2
    ELSE 0

\* the type switch of GetUserIDFromContext; uint(v) truncates a float64
TypeSwitch(userID) ==
    IF userID.type = "uint" THEN userID.v
    ELSE IF userID.type = "float64" THEN userID.v \div 2
    ELSE 0

\* middleware.GetUserIDFromContext on the context of a request that has
\* passed AuthMiddleware
GetUserIDFromContext(out) == TypeSwitch(ContextOf(out))

ErrNotAuthenticated == "User not authenticated"
ErrInvalidUserID == "Invalid user ID"
ErrUserNotFound == "User not found"

\* what a request on /users/me with header hdr has come to when its handler
\* returns or calls the use case: the answer of AuthMiddleware in out, and
\* in args.id the user id the handler has read from the context
MeResp(op, hdr, err, id, user) ==
    [Resp(op, err, Args(NULL, NULL, NULL, id, NULL), user, Held)
        EXCEPT !.iss = HeldSince, !.at = now, !.hdr = hdr,
               !.out = AuthResult(hdr, now)]

\* the error a request on /users/me ends with before its handler reaches
\* the use case, OK when it reaches it
MeRefusal(hdr) ==
    IF ~AuthResult(hdr, now).next THEN AuthResult(hdr, now).error
    ELSE IF GetUserIDFromContext(AuthResult(hdr, now)) = 0 THEN ErrNotAuthenticated
    ELSE OK

\* GET /users/me
GetCurrentUser(p) ==
    /\ pc[p] = "idle"
    /\ \E hdr \in Headers(Held) :
        LET userID == GetUserIDFromContext(AuthResult(hdr, now))
            found == FindByID(users, userID)
        IN  IF MeRefusal(hdr) # OK
            THEN Return(p, MeResp("GetCurrentUser", hdr, MeRefusal(hdr), 0, NoUser))
            ELSE Return(p, MeResp("GetCurrentUser", hdr, found.err, userID,
                                  found.user))
    /\ UNCHANGED <<users, nextID, now, spent, session>>

\* mutant: the id is taken from the request, not from the token
UpdateCurrentUser_AnyID(p, D) ==
    /\ pc[p] = "idle"
    /\ \E hdr \in Headers(Held), name \in D.names, email \in D.emails,
          userID \in UserIDs :
        LET found == FindByID(users, userID)
        IN  IF MeRefusal(hdr) # OK
            THEN Return(p, MeResp("UpdateCurrentUser", hdr, MeRefusal(hdr), 0, NoUser))
            ELSE IF found.err # OK
            THEN Return(p, MeResp("UpdateCurrentUser", hdr, found.err, userID,
                                  NoUser))
            ELSE /\ pc' = [pc EXCEPT ![p] = "save"]
                 /\ loc' = [loc EXCEPT ![p] =
                               [op |-> "UpdateUser",
                                args |-> Args(name, email, NULL, userID, NULL),
                                user |-> [found.user EXCEPT !.name = name,
                                                            !.email = email]]]
                 /\ resp' = MeResp("UpdateCurrentUser", hdr, OK, userID, NoUser)
    /\ UNCHANGED <<users, nextID, now, spent, session>>

\* PUT /users/me up to the Update call of userUseCase.UpdateUser; the call
\* ends with UpdateUserSave
UpdateCurrentUser(p, D) ==
    /\ pc[p] = "idle"
    /\ \E hdr \in Headers(Held), name \in D.names, email \in D.emails :
        LET userID == GetUserIDFromContext(AuthResult(hdr, now))
            found == FindByID(users, userID)
        IN  IF MeRefusal(hdr) # OK
            THEN Return(p, MeResp("UpdateCurrentUser", hdr, MeRefusal(hdr), 0, NoUser))
            ELSE IF found.err # OK
            THEN Return(p, MeResp("UpdateCurrentUser", hdr, found.err, userID,
                                  NoUser))
            ELSE /\ pc' = [pc EXCEPT ![p] = "save"]
                 /\ loc' = [loc EXCEPT ![p] =
                               [op |-> "UpdateUser",
                                args |-> Args(name, email, NULL, userID, NULL),
                                user |-> [found.user EXCEPT !.name = name,
                                                            !.email = email]]]
                 /\ resp' = MeResp("UpdateCurrentUser", hdr, OK, userID, NoUser)
    /\ UNCHANGED <<users, nextID, now, spent, session>>

\* DELETE /users/me
DeleteCurrentUser(p) ==
    /\ pc[p] = "idle"
    /\ \E hdr \in Headers(Held) :
        LET userID == GetUserIDFromContext(AuthResult(hdr, now))
            d == Delete(users, userID)
        IN  IF MeRefusal(hdr) # OK
            THEN /\ users' = users
                 /\ Return(p, MeResp("DeleteCurrentUser", hdr, MeRefusal(hdr), 0,
                                     NoUser))
            ELSE /\ users' = d.users
                 /\ Return(p, MeResp("DeleteCurrentUser", hdr, d.err, userID,
                                     NoUser))
    /\ UNCHANGED <<nextID, now, spent, session>>

(* ------------------ /users/me handlers on a context ------------------- *)
\* what a /users/me handler called on a context holding c under "user_id"
\* has come to: hdr holds c, out the status and error body it answers with
\* (status 0 while the use case is running) and the id it read
CtxResp(op, c, status, err, id, user) ==
    [Resp(op, err, Args(NULL, NULL, NULL, id, NULL), user, NoToken)
        EXCEPT !.at = now, !.hdr = <<c>>,
               !.out = [status |-> status, error |-> err, next |-> FALSE,
                        user_id |-> TypeSwitch(c)]]

\* UserHandler.GetCurrentUser
GetCurrentUserOn(p) ==
    /\ pc[p] = "idle"
    /\ \E c \in ContextValues :
        LET userID == TypeSwitch(c)
            found == FindByID(users, userID)
        IN  IF userID = 0
            THEN Return(p, CtxResp("GetCurrentUser", c, 401, ErrNotAuthenticated,
                                   0, NoUser))
            ELSE IF found.err # OK
            THEN Return(p, CtxResp("GetCurrentUser", c, 404, ErrUserNotFound,
                                   userID, NoUser))
            ELSE Return(p, CtxResp("GetCurrentUser", c, 200, OK, userID,
                                   found.user))
    /\ UNCHANGED <<users, nextID, now, spent, session>>

\* UserHandler.UpdateCurrentUser up to the Update call of
\* userUseCase.UpdateUser; the call ends with UpdateUserSave
UpdateCurrentUserOn(p, D) ==
    /\ pc[p] = "idle"
    /\ \E c \in ContextValues, name \in D.names, email \in D.emails :
        LET userID == TypeSwitch(c)
            found == FindByID(users, userID)
        IN  IF userID = 0
            THEN Return(p, CtxResp("UpdateCurrentUser", c, 401,
                                   ErrNotAuthenticated, 0, NoUser))
            ELSE IF found.err # OK
            THEN Return(p, CtxResp("UpdateCurrentUser", c, 500, found.err,
                                   userID, NoUser))
            ELSE /\ pc' = [pc EXCEPT ![p] = "save"]
                 /\ loc' = [loc EXCEPT ![p] =
                               [op |-> "UpdateUser",
                                args |-> Args(name, email, NULL, userID, NULL),
                                user |-> [found.user EXCEPT !.name = name,
                                                            !.email = email]]]
                 /\ resp' = CtxResp("UpdateCurrentUser", c, 0, OK, userID, NoUser)
    /\ UNCHANGED <<users, nextID, now, spent, session>>

\* UserHandler.DeleteCurrentUser
DeleteCurrentUserOn(p) ==
    /\ pc[p] = "idle"
    /\ \E c \in ContextValues :
        LET userID == TypeSwitch(c)
            d == Delete(users, userID)
        IN  IF userID = 0
            THEN /\ users' = users
                 /\ Return(p, CtxResp("DeleteCurrentUser", c, 401,
                                      ErrNotAuthenticated, 0, NoUser))
            ELSE IF d.err # OK
            THEN /\ users' = d.users
                 /\ Return(p, CtxResp("DeleteCurrentUser", c, 500, d.err, userID,
                                      NoUser))
            ELSE /\ users' = d.users
                 /\ Return(p, CtxResp("DeleteCurrentUser", c, 204, OK, userID,
                                      NoUser))
    /\ UNCHANGED <<nextID, now, spent, session>>

(* ------------------------- /users/:id handlers ------------------------ *)
\* decimal numerals of the ids a run can hold
Numerals == <<"1", "2", "3", "4">>

\* the :id path parameters a request may carry
Params == {Numerals[i] : i \in UserIDs} \cup {"abc"}

\* strconv.ParseUint(s, 10, 32)
ParseUint(s) ==
    IF \E i \in DOMAIN Numerals : Numerals[i] = s
    THEN [err |-> OK, v |-> CHOOSE i \in DOMAIN Numerals : Numerals[i] = s]
    ELSE [err |-> "invalid syntax", v |-> 0]

\* the error a request on /users/:id ends with before its handler reaches
\* the use case, OK when it reaches it
IDRefusal(hdr, param) ==
    IF ~AuthResult(hdr, now).next THEN AuthResult(hdr, now).error
    ELSE IF ParseUint(param).err # OK THEN ErrInvalidUserID
    ELSE OK

\* GET /users/:id
UserHandlerGetUser(p) ==
    /\ pc[p] = "idle"
    /\ \E hdr \in Headers(Held), param \in Params :
        LET id == ParseUint(param).v
            found == FindByID(users, id)
        IN  IF IDRefusal(hdr, param) # OK
            THEN Return(p, MeResp("UserHandlerGetUser", hdr, IDRefusal(hdr, param),
                                  0, NoUser))
            ELSE IF found.err # OK
            THEN Return(p, MeResp("UserHandlerGetUser", hdr, ErrUserNotFound, id,
                                  NoUser))
            ELSE Return(p, MeResp("UserHandlerGetUser", hdr, OK, id, found.user))
    /\ UNCHANGED <<users, nextID, now, spent, session>>

\* PUT /users/:id up to the Update call of userUseCase.UpdateUser; the call
\* ends with UpdateUserSave
UserHandlerUpdateUser(p, D) ==
    /\ pc[p] = "idle"
    /\ \E hdr \in Headers(Held), param \in Params, name \in D.names,
          email \in D.emails :
        LET id == ParseUint(param).v
            found == FindByID(users, id)
        IN  IF IDRefusal(hdr, param) # OK
            THEN Return(p, MeResp("UserHandlerUpdateUser", hdr,
                                  IDRefusal(hdr, param), 0, NoUser))
            ELSE IF found.err # OK
            THEN Return(p, MeResp("UserHandlerUpdateUser", hdr, found.err, id,
                                  NoUser))
            ELSE /\ pc' = [pc EXCEPT ![p] = "save"]
                 /\ loc' = [loc EXCEPT ![p] =
                               [op |-> "UpdateUser",
                                args |-> Args(name, email, NULL, id, NULL),
                                user |-> [found.user EXCEPT !.name = name,
                                                            !.email = email]]]
                 /\ resp' = MeResp("UserHandlerUpdateUser", hdr, OK, id, NoUser)
    /\ UNCHANGED <<users, nextID, now, spent, session>>

\* DELETE /users/:id
UserHandlerDeleteUser(p) ==
    /\ pc[p] = "idle"
    /\ \E hdr \in Headers(Held), param \in Params :
        LET id == ParseUint(param).v
            d == Delete(users, id)
        IN  IF IDRefusal(hdr, param) # OK
            THEN /\ users' = users
                 /\ Return(p, MeResp("UserHandlerDeleteUser", hdr,
                                     IDRefusal(hdr, param), 0, NoUser))
            ELSE /\ users' = d.users
                 /\ Return(p, MeResp("UserHandlerDeleteUser", hdr, d.err, id,
                                     NoUser))
    /\ UNCHANGED <<nextID, now, spent, session>>

(* -------------------------------- clock ------------------------------- *)
Tick ==
    /\ now < MaxNow
    /\ now' = now + 1
    /\ UNCHANGED <<users, nextID, pc, loc, resp, spent, session>>

\* nothing happens for d ticks
Sleep(d) ==
    /\ now <= MaxNow
    /\ now' = now + d
    /\ UNCHANGED <<users, nextID, pc, loc, resp, spent, session>>

(* ---------------------------- specifications -------------------------- *)
\* Concurrent requests that write the store.
Small == Inputs({"n1"}, {"e1", "e2"}, {PwShort1, PwShort2}, {"t1"}, {"s1"})

Next ==
    \/ \E p \in Procs :
        \/ Register(p, Small)
        \/ RegisterCreate(p)
        \/ UpdateUser(p, Small)
        \/ UpdateUserSave(p)
        \/ DeleteUser(p, Small)
        \/ RequestPasswordReset(p, Small)
        \/ RequestPasswordResetSave(p)
        \/ ResetPassword(p, Small)
        \/ ResetPasswordSave(p)

Spec == Init /\ [][Next]_vars

\* One request at a time.
First == CHOOSE p \in Procs : TRUE

\* Accounts: registration, login and profile.
Accounts ==
    Inputs({"n1", "n2"}, {"e1", "e2"}, {PwShort1, PwShort2, PwLong}, {}, {"s1", "s2"})

NextAccounts ==
    \/ Register(First, Accounts)
    \/ RegisterCreate(First)
    \/ Login(First, Accounts)
    \/ GetByID(First, Accounts)
    \/ UpdateUser(First, Accounts)
    \/ UpdateUserSave(First)
    \/ DeleteUser(First, Accounts)

SpecAccounts == Init /\ [][NextAccounts]_vars

\* Password reset over one hour.
Resets ==
    Inputs({"n1"}, {"e1", "e2"}, {PwShort1, PwShort2, PwLong}, {"t1", "t2"}, {"s1"})

NextReset ==
    \/ Register(First, Resets)
    \/ RegisterCreate(First)
    \/ Login(First, Resets)
    \/ RequestPasswordReset(First, Resets)
    \/ RequestPasswordResetSave(First)
    \/ ResetPassword(First, Resets)
    \/ ResetPasswordSave(First)
    \/ Tick
    \/ Sleep(ResetTicks - 1)

SpecReset == Init /\ [][NextReset]_vars

\* Session tokens over 24 hours.
Sessions ==
    Inputs({"n1"}, {"e1", "e2"}, {PwShort1, PwShort2, PwLong}, {}, {"s1"})

NextSession ==
    \/ Register(First, Sessions)
    \/ RegisterCreate(First)
    \/ Login(First, Sessions)
    \/ AuthMiddleware
    \/ Tick
    \/ Sleep(SessionTicks - 1)

SpecSession == Init /\ [][NextSession]_vars

\* A client that keeps its token and uses /users/me.
Me == Inputs({"n1", "n2"}, {"e1", "e2"}, {PwShort1}, {}, {"s1"})

NextMe ==
    \/ Register(First, Me)
    \/ RegisterCreate(First)
    \/ Login(First, Me)
    \/ StoreToken
    \/ GetCurrentUser(First)
    \/ UpdateCurrentUser(First, Me)
    \/ UpdateUserSave(First)
    \/ DeleteCurrentUser(First)

SpecMe == Init /\ [][NextMe]_vars

\* A client that keeps its token while the account behind it is deleted or
\* its password is reset.
Revoked == Inputs({"n1"}, {"e1"}, {PwShort1, PwShort2}, {"t1"}, {"s1"})

NextRevoke ==
    \/ Register(First, Revoked)
    \/ RegisterCreate(First)
    \/ Login(First, Revoked)
    \/ StoreToken
    \/ AuthMiddleware
    \/ DeleteUser(First, Revoked)
    \/ RequestPasswordReset(First, Revoked)
    \/ RequestPasswordResetSave(First)
    \/ ResetPassword(First, Revoked)
    \/ ResetPasswordSave(First)
    \/ Tick
    \/ Sleep(SessionTicks - 1)

SpecRevoke == Init /\ [][NextRevoke]_vars

\* Profiles: one request at a time reads, updates and deletes users that
\* may have a reset pending.
Profiles == Inputs({"n1", "n2"}, {"e1", "e2"}, {PwShort1, PwShort2}, {"t1"}, {"s1"})

NextProfile ==
    \/ Register(First, Profiles)
    \/ RegisterCreate(First)
    \/ Login(First, Profiles)
    \/ GetByID(First, Profiles)
    \/ UpdateUser(First, Profiles)
    \/ UpdateUserSave(First)
    \/ DeleteUser(First, Profiles)
    \/ RequestPasswordReset(First, Profiles)
    \/ RequestPasswordResetSave(First)

SpecProfile == Init /\ [][NextProfile]_vars

\* A client that keeps its token and uses every protected /users route.
Routes == Inputs({"n1", "n2"}, {"e1", "e2"}, {PwShort1}, {}, {"s1"})

NextRoute ==
    \/ Register(First, Routes)
    \/ RegisterCreate(First)
    \/ Login(First, Routes)
    \/ StoreToken
    \/ GetCurrentUser(First)
    \/ UpdateCurrentUser(First, Routes)
    \/ DeleteCurrentUser(First)
    \/ UserHandlerGetUser(First)
    \/ UserHandlerUpdateUser(First, Routes)
    \/ UserHandlerDeleteUser(First)
    \/ UpdateUserSave(First)

SpecRoute == Init /\ [][NextRoute]_vars

\* The /users/me handlers called on contexts of every kind.
Contexts == Inputs({"n1", "n2"}, {"e1", "e2"}, {PwShort1}, {}, {"s1"})

NextContext ==
    \/ Register(First, Contexts)
    \/ RegisterCreate(First)
    \/ GetCurrentUserOn(First)
    \/ UpdateCurrentUserOn(First, Contexts)
    \/ UpdateUserSave(First)
    \/ DeleteCurrentUserOn(First)

SpecContext == Init /\ [][NextContext]_vars

(* ------------------------------- claims ------------------------------- *)
\* the last call was a request on a protected route carrying the token
\* string that Login returned
PresentedHeld ==
    /\ resp.op = "AuthMiddleware"
    /\ resp.token # NoToken
    /\ resp.hdr = Bearer(resp.token)

\* Login with the arguments of the Register call r, made now, and a request
\* with the token it returns: both succeed and the request runs as the user
\* Register returned
LoginAfter(r) ==
    LET l == LoginResult(users, r.args.email, r.args.password, now)
        a == AuthResult(Bearer(l.token), now)
    IN  /\ l.err = OK
        /\ a.status = 200 /\ a.next
        /\ a.user_id = r.user.id

\* C1 as stated: for every name, email and password with an email not in the
\* store, Register succeeds, Login with the same email and password then
\* succeeds, and AuthMiddleware accepts the token and recovers the id of the
\* user Register created.
C1_Original ==
    (resp.op = "Register" /\ resp.err # ErrEmailExists)
        => (resp.err = OK /\ LoginAfter(resp))

\* C1 amended: the same for every password of at most 72 bytes; and a token
\* Login has returned carries the id of the stored user with that email, and
\* a request presenting it at the instant of its issue runs as that user.
C1_RegisterLoginVerify ==
    /\ (resp.op = "Register" /\ resp.err # ErrEmailExists
            /\ resp.args.password.len <= BcryptMaxBytes)
        => (resp.err = OK /\ LoginAfter(resp))
    /\ (resp.op = "Login" /\ resp.err = OK)
        => /\ resp.token.user_id \in DOMAIN users
           /\ users[resp.token.user_id].email = resp.args.email
    /\ (PresentedHeld /\ resp.at = resp.iss)
        => (resp.out.next /\ resp.out.user_id = resp.token.user_id)

C1_Witness ==
    /\ PresentedHeld
    /\ resp.at = resp.iss
    /\ resp.out.next
    /\ resp.out.user_id \in DOMAIN users

\* C6 as stated: a token issued at t expires at t + 24h; the verifier accepts
\* it at every now <= t + 24h and rejects it at every now > t + 24h.
C6_Original ==
    /\ (resp.op = "Login" /\ resp.err = OK)
        => AtSecond(resp.token.exp) = resp.iss + SessionTicks
    /\ PresentedHeld
        => (resp.out.next <=> resp.at <= resp.iss + SessionTicks)

\* C6 amended: a token issued at t carries as exp the last whole second not
\* after t + 24h; the verifier accepts it at every now < exp and rejects it
\* at every now >= exp.
C6_SessionWindow ==
    /\ (resp.op = "Login" /\ resp.err = OK)
        => /\ AtSecond(resp.token.exp) <= resp.iss + SessionTicks
           /\ resp.iss + SessionTicks < AtSecond(resp.token.exp + 1)
    /\ PresentedHeld
        => (resp.out.next <=> resp.at < AtSecond(resp.token.exp))

\* the token is presented within 24h of its issue and is rejected
C6_Witness ==
    /\ PresentedHeld
    /\ resp.at <= resp.iss + SessionTicks
    /\ ~resp.out.next

\* the token strings the library refuses as invalid rather than expired
InvalidAt(tok, t) ==
    {bad \in Presentable(tok) :
        ParseWithClaims(bad, t) \in {"token is malformed", "token is unverifiable",
                                     "token signature is invalid"}}

PresentedExpired ==
    /\ PresentedHeld
    /\ ParseWithClaims(resp.token, resp.at) = "token is expired"

\* C7 as stated: verifying a correctly signed, expired token fails with an
\* outcome that differs from the outcome for a bad signature or a malformed
\* token.
C7_Original ==
    PresentedExpired
        => \A bad \in InvalidAt(resp.token, resp.at) :
              AuthResult(Bearer(bad), resp.at) # resp.out

\* C7 amended: the middleware answers a correctly signed, expired token with
\* 401 "Invalid token" and does not run the handler, exactly as it answers a
\* bad signature or a malformed token; only the error of the JWT library,
\* which the middleware drops, tells the two apart.
C7_ExpiredAsInvalid ==
    PresentedExpired
        => /\ resp.out = [status |-> 401, error |-> "Invalid token",
                          next |-> FALSE, user_id |-> 0]
           /\ \A bad \in InvalidAt(resp.token, resp.at) :
                 /\ AuthResult(Bearer(bad), resp.at) = resp.out
                 /\ ParseWithClaims(bad, resp.at)
                        # ParseWithClaims(resp.token, resp.at)

C7_Witness == PresentedExpired /\ InvalidAt(resp.token, resp.at) # {}

\* C8: the handler behind the middleware runs only for a well-formed bearer
\* token signed with an HMAC algorithm under the secret and not expired; a
\* tampered signature, a non-HMAC algorithm, "none" and a malformed token get
\* 401 and the handler does not run.
C8_OnlyValidTokensPass ==
    resp.op = "AuthMiddleware"
        => /\ resp.out.next
                => /\ Len(resp.hdr) = 2 /\ resp.hdr[1] = "Bearer"
                   /\ resp.hdr[2].form = "jwt"
                   /\ resp.hdr[2].alg \in HMACAlgs
                   /\ resp.hdr[2].sig = Mac(resp.hdr[2].alg, resp.hdr[2].user_id,
                                            resp.hdr[2].exp, resp.hdr[2].iat, Secret)
                   /\ resp.at < AtSecond(resp.hdr[2].exp)
                   /\ resp.out.user_id = resp.hdr[2].user_id
           /\ ~resp.out.next => resp.out.status = 401

\* an unexpired token of the right user with algorithm "none" was refused
C8_Witness ==
    /\ resp.op = "AuthMiddleware"
    /\ Len(resp.hdr) = 2
    /\ resp.hdr[2].alg = "none"
    /\ resp.hdr[2].user_id = resp.token.user_id
    /\ resp.at < AtSecond(resp.hdr[2].exp)
    /\ resp.out.status = 401 /\ ~resp.out.next

\* a call of op by some request returned in this step without a store call
\* after its first lookup
ReturnedEarly(op) ==
    /\ pc' = pc
    /\ now' = now
    /\ resp'.op = op

\* C2: Register with an email that a stored user has fails with "email
\* already exists", returns no user, never reaches Create and leaves the
\* store as it was.
C2_DuplicateEmailRejected ==
    [][ /\ (ReturnedEarly("Register")
                /\ FindByEmail(users, resp'.args.email).err = OK)
            => /\ resp'.err = ErrEmailExists
               /\ resp'.user = NoUser
               /\ users' = users /\ nextID' = nextID
        /\ \A p \in Procs :
              (pc[p] = "idle" /\ pc'[p] = "create")
                  => FindByEmail(users, loc'[p].user.email).err # OK ]_vars

C2_Witness ==
    /\ resp.op = "Register"
    /\ resp.err = ErrEmailExists
    /\ FindByEmail(users, resp.args.email).err = OK

\* C5: Login with an unknown email and Login with a known email and a
\* password that does not match the stored hash fail with the same error,
\* "invalid email or password", and return the empty token string.
LoginRefused(email, password) ==
    LET found == FindByEmail(users, email)
    IN  \/ found.err # OK
        \/ ~CompareHashAndPassword(found.user.password, password)

C5_UniformLoginFailure ==
    /\ (resp.op = "Login" /\ LoginRefused(resp.args.email, resp.args.password))
        => (resp.err = ErrInvalidCredentials /\ resp.token = NoToken)
    /\ \A email \in Accounts.emails, password \in Accounts.passwords :
          LoginRefused(email, password)
              => LoginResult(users, email, password, now)
                     = [err |-> ErrInvalidCredentials, token |-> NoToken]

\* Login was refused for a wrong password while another email is unknown
C5_Witness ==
    /\ resp.op = "Login"
    /\ resp.err = ErrInvalidCredentials
    /\ FindByEmail(users, resp.args.email).err = OK
    /\ \E email \in Accounts.emails : FindByEmail(users, email).err # OK

\* C3: no two stored users have the same email.
C3_EmailUnique ==
    \A i \in DOMAIN users, j \in DOMAIN users :
        i # j => users[i].email # users[j].email

\* two users are stored and a profile update onto the email of the other one
\* was refused
C3_Witness ==
    /\ Cardinality(DOMAIN users) = 2
    /\ resp.op = "UpdateUser"
    /\ resp.err = ErrDuplicateKey

\* C4: when a Register call reaches Create after another call has stored a
\* user with the same email, it creates nothing and returns an error and no
\* user; so of two concurrent calls with the same fresh email at most one
\* creates a user.
C4_RegisterRace ==
    [][ \A p \in Procs :
          (/\ pc[p] = "create" /\ pc'[p] = "idle"
           /\ FindByEmail(users, loc[p].user.email).err = OK)
              => /\ resp'.op = "Register"
                 /\ resp'.err \in {ErrEmailExists, ErrDuplicateKey}
                 /\ resp'.user = NoUser
                 /\ users' = users ]_vars

\* a Register call lost the race: its email was free when it looked and is
\* stored when Create returns the conflict
C4_Witness ==
    /\ resp.op = "Register"
    /\ resp.err = ErrDuplicateKey
    /\ FindByEmail(users, resp.args.email).err = OK

\* request p's ResetPassword call returns nil in this step
ResetSaved(p) ==
    /\ pc[p] = "save" /\ loc[p].op = "ResetPassword"
    /\ pc'[p] = "idle"
    /\ resp'.err = OK

\* what a successful ResetPassword of request p leaves behind: one write that
\* replaces the hash and clears the token and its expiry, after which Login
\* with the new password succeeds and ResetPassword with the same token fails
\* with "invalid or expired reset token"
ResetEffect(p) ==
    LET id == loc[p].user.id
        new == loc[p].args.password
    IN  /\ id \in DOMAIN users
        /\ users' = [users EXCEPT ![id] = [@ EXCEPT !.password = loc[p].user.password,
                                                    !.resetToken = NULL,
                                                    !.resetExpires = NoTime]]
        /\ CompareHashAndPassword(users'[id].password, new)
        /\ LoginResult(users', users[id].email, new, now).err = OK
        /\ ResetLookup(users', loc[p].args.token, now).err = ErrResetInvalid

\* C9 as stated: ResetPassword with a pending, unexpired token succeeds, in
\* one write replaces the hash and clears the token and its expiry; then
\* Login with the new password succeeds, Login with the old password fails
\* and a second ResetPassword with the token fails as invalid.
C9_Original ==
    [][ /\ ReturnedEarly("ResetPassword")
            => ResetLookup(users, resp'.args.token, now).err # OK
        /\ \A p \in Procs :
              (pc[p] = "save" /\ loc[p].op = "ResetPassword" /\ pc'[p] = "idle")
                  => resp'.err = OK
        /\ \A p \in Procs :
              ResetSaved(p)
                  => /\ ResetEffect(p)
                     /\ \A old \in Resets.passwords :
                           CompareHashAndPassword(users[loc[p].user.id].password, old)
                               => LoginResult(users', users[loc[p].user.id].email,
                                              old, now).err = ErrInvalidCredentials
      ]_vars

\* C9 amended: the same for a new password of at most 72 bytes, and Login
\* with the old password fails when the new password differs from it.
C9_ResetReplacesPassword ==
    [][ /\ (ReturnedEarly("ResetPassword")
                /\ resp'.args.password.len <= BcryptMaxBytes)
            => ResetLookup(users, resp'.args.token, now).err # OK
        /\ \A p \in Procs :
              (pc[p] = "save" /\ loc[p].op = "ResetPassword" /\ pc'[p] = "idle")
                  => resp'.err = OK
        /\ \A p \in Procs :
              ResetSaved(p)
                  => /\ ResetEffect(p)
                     /\ \A old \in Resets.passwords :
                           (/\ CompareHashAndPassword(users[loc[p].user.id].password, old)
                            /\ old.head # loc[p].args.password.head)
                               => LoginResult(users', users[loc[p].user.id].email,
                                              old, now).err = ErrInvalidCredentials
      ]_vars

\* a reset has replaced the password of a stored user by a different one
C9_Witness ==
    /\ resp.op = "ResetPassword" /\ resp.err = OK
    /\ resp.user.id \in DOMAIN users
    /\ users[resp.user.id].resetToken = NULL
    /\ CompareHashAndPassword(users[resp.user.id].password, resp.args.password)
    /\ resp.args.password = PwShort2

\* C10: a reset token changes a password at most once after it was issued,
\* also when two ResetPassword calls with it run concurrently.
C10_TokenSingleUse ==
    [][ \A p \in Procs : ResetSaved(p) => loc[p].args.token \notin spent ]_vars

\* a ResetPassword call returns in this step and its token is stored on a
\* user whose expiry lies before now
ExpiredCall ==
    /\ ReturnedEarly("ResetPassword")
    /\ LET f == FindByPasswordResetToken(users, resp'.args.token)
       IN  /\ f.err = OK
           /\ f.user.resetExpires # NoTime
           /\ now > f.user.resetExpires

\* the user's password is as it was: Login with every password that matched
\* the stored hash still succeeds
PasswordKept(email) ==
    \A old \in Resets.passwords :
        LoginResult(users, email, old, now).err = OK
            => LoginResult(users', email, old, now).err = OK

\* C11 as stated: ResetPassword with a token whose expiry has passed fails
\* with "reset token has expired" and leaves the hash unchanged: Login with
\* the old password succeeds and Login with the proposed password fails.
C11_Original ==
    [][ ExpiredCall =>
          LET u == FindByPasswordResetToken(users, resp'.args.token).user
          IN  /\ resp'.err = ErrResetExpired
              /\ users' = users
              /\ PasswordKept(u.email)
              /\ LoginResult(users', u.email, resp'.args.password, now).err
                    = ErrInvalidCredentials ]_vars

\* C11 amended: the same, and Login with the proposed password fails when
\* its first 72 bytes differ from those of the current password.
C11_ExpiredTokenRefused ==
    [][ ExpiredCall =>
          LET u == FindByPasswordResetToken(users, resp'.args.token).user
          IN  /\ resp'.err = ErrResetExpired
              /\ users' = users
              /\ PasswordKept(u.email)
              /\ (\A old \in Resets.passwords :
                      LoginResult(users, u.email, old, now).err = OK
                          => old.head # resp'.args.password.head)
                    => LoginResult(users', u.email, resp'.args.password, now).err
                          = ErrInvalidCredentials ]_vars

\* ResetPassword was refused as expired one tick after the hour, with a
\* proposed password other than the current one
C11_Witness ==
    /\ resp.op = "ResetPassword" /\ resp.err = ErrResetExpired
    /\ LET f == FindByPasswordResetToken(users, resp.args.token)
       IN  /\ f.err = OK
           /\ now = f.user.resetExpires + 1
           /\ ~CompareHashAndPassword(f.user.password, resp.args.password)
           /\ LoginResult(users, f.user.email, PwShort1, now).err = OK

\* C12: the reset token is stored only while a reset is outstanding: once
\* ResetPassword has found it expired it is no longer stored.
C12_ExpiredTokenCleared ==
    [][ ExpiredCall
          => FindByPasswordResetToken(users', resp'.args.token).err # OK ]_vars

\* C13: on every stored user the reset token and its expiry are both
\* present or both absent.
C13_TokenAndExpiryPaired ==
    \A i \in DOMAIN users :
        (users[i].resetToken = NULL) <=> (users[i].resetExpires = NoTime)

\* UpdateUser has written back a row it read before ResetPassword consumed
\* the token on it: the user holds token and expiry again
C13_Witness ==
    /\ resp.op = "UpdateUser" /\ resp.err = OK
    /\ \E i \in DOMAIN users :
          /\ users[i].resetToken \in spent
          /\ users[i].resetExpires # NoTime

\* C14: RequestPasswordReset with an email no stored user has returns nil
\* without reaching Update and leaves the store as it was.
C14_UnknownEmailNoEffect ==
    [][ /\ (ReturnedEarly("RequestPasswordReset")
                /\ FindByEmail(users, resp'.args.email).err # OK)
            => /\ resp'.err = OK
               /\ users' = users /\ nextID' = nextID
        /\ \A p \in Procs :
              (pc[p] = "idle" /\ pc'[p] = "save"
                    /\ loc'[p].op = "RequestPasswordReset")
                  => FindByEmail(users, loc'[p].args.email).err = OK ]_vars

\* RequestPasswordReset has returned for an unknown email while another
\* email is registered
C14_Witness ==
    /\ resp.op = "RequestPasswordReset" /\ resp.err = OK
    /\ resp.user = NoUser
    /\ FindByEmail(users, resp.args.email).err # OK
    /\ \E i \in DOMAIN users : users[i].resetToken = NULL

\* request p's RequestPasswordReset call goes on to Update in this step
ResetRequested(p) ==
    /\ pc[p] = "idle" /\ pc'[p] = "save"
    /\ loc'[p].op = "RequestPasswordReset"

\* request p's RequestPasswordReset call returns from Update in this step,
\* and neither the token it generated nor the email of its user is on
\* another row
ResetStoredFresh(p) ==
    /\ pc[p] = "save" /\ pc'[p] = "idle"
    /\ loc[p].op = "RequestPasswordReset"
    /\ \A i \in DOMAIN users :
          i # loc[p].user.id
              => /\ users[i].resetToken # loc[p].user.resetToken
                 /\ users[i].email # loc[p].user.email

\* C15: RequestPasswordReset with the email of a stored user u stores a
\* freshly generated token on u with expiry one hour after the call, so that
\* FindByPasswordResetToken returns u; id, name, email and password of u
\* are as the call read them and no other row changes.
C15_ResetRequestStoresToken ==
    [][ \A p \in Procs :
          /\ ResetRequested(p)
                => LET u == FindByEmail(users, loc'[p].args.email).user
                   IN  /\ u.id \in DOMAIN users
                       /\ loc'[p].user = [u EXCEPT !.resetToken = loc'[p].args.token,
                                                   !.resetExpires = now + ResetTicks]
                       /\ loc'[p].args.token \in generateResetToken(Resets)
                       /\ users' = users
          /\ ResetStoredFresh(p)
                => LET w == loc[p].user
                   IN  /\ resp'.err = OK
                       /\ w.id \in DOMAIN users'
                       /\ users'[w.id] = w
                       /\ FindByPasswordResetToken(users', w.resetToken)
                              = [err |-> OK, user |-> w]
                       /\ \A i \in DOMAIN users \cup DOMAIN users' :
                             i # w.id => /\ i \in DOMAIN users \cap DOMAIN users'
                                         /\ users'[i] = users[i]
      ]_vars

\* a token is stored on one of two users, with the expiry one hour after
\* the call that was made at tick 1
C15_Witness ==
    /\ resp.op = "RequestPasswordReset" /\ resp.err = OK
    /\ resp.user.id \in DOMAIN users
    /\ Cardinality(DOMAIN users) = 2
    /\ users[resp.user.id].resetToken = resp.args.token
    /\ users[resp.user.id].resetExpires = 1 + ResetTicks
    /\ FindByPasswordResetToken(users, resp.args.token).user.id = resp.user.id

\* request p's RequestPasswordReset call returns from Update in this step
ResetStored(p) ==
    /\ pc[p] = "save" /\ pc'[p] = "idle"
    /\ loc[p].op = "RequestPasswordReset"

C17_ResetTokenUnique ==
    \A i \in DOMAIN users, j \in DOMAIN users :
        (i # j /\ users[i].resetToken # NULL)
            => users[i].resetToken # users[j].resetToken

\* the store has refused to put on one user the token another user holds
C17_Witness ==
    /\ resp.op = "RequestPasswordReset"
    /\ resp.err = ErrDuplicateKey
    /\ \E i \in DOMAIN users, j \in DOMAIN users :
          /\ i # j
          /\ users[i].resetToken = resp.args.token
          /\ users[j].email = resp.args.email
          /\ users[j].resetToken = NULL

\* the header has the form "Bearer <token>"
BearerForm(hdr) == Len(hdr) = 2 /\ hdr[1] = "Bearer"

\* the response is a 401 with the given message and next(c) did not run
Refused(out, message) ==
    out.status = 401 /\ out.error = message /\ ~out.next

\* C19: on a protected route a missing header, a header not of the form
\* "Bearer <token>" and an invalid or expired token are each answered 401
\* with a message of their own, without running the handler; with a valid
\* token the handler runs with the user_id of the token in the context.
C19_ThreeRefusals ==
    resp.op = "AuthMiddleware" =>
        /\ resp.hdr = <<>>
              => Refused(resp.out, "Authorization header is required")
        /\ (resp.hdr # <<>> /\ ~BearerForm(resp.hdr))
              => Refused(resp.out, "Invalid authorization header format")
        /\ (BearerForm(resp.hdr) /\ ParseWithClaims(resp.hdr[2], resp.at) # OK)
              => Refused(resp.out, "Invalid token")
        /\ (BearerForm(resp.hdr) /\ ParseWithClaims(resp.hdr[2], resp.at) = OK)
              => /\ resp.out.next
                 /\ resp.out.user_id = resp.hdr[2].user_id
        /\ ~resp.out.next
              => resp.out.error \in {"Authorization header is required",
                                     "Invalid authorization header format",
                                     "Invalid token"}

\* a client that holds a token has sent it with another scheme than Bearer
C19_Witness ==
    /\ resp.op = "AuthMiddleware"
    /\ resp.token # NoToken
    /\ resp.hdr = <<"Basic", resp.token>>
    /\ Refused(resp.out, "Invalid authorization header format")

\* the last call was a request on a protected route with the token string
\* the client keeps
PresentedKept ==
    /\ resp.op = "AuthMiddleware"
    /\ session # NoSession
    /\ resp.token = session.token
    /\ resp.hdr = Bearer(session.token)

\* C18: whether a kept token is accepted depends on its signature and its
\* expiry only: it is accepted exactly while the clock is before its expiry,
\* also after its user was deleted or the user's password was reset.
C18_NoRevocation ==
    PresentedKept =>
        /\ resp.out.next <=> resp.at < AtSecond(session.token.exp)
        /\ resp.out.next => resp.out.user_id = session.token.user_id

\* the token of a deleted user has been accepted one tick before its expiry
C18_Witness ==
    /\ PresentedKept
    /\ resp.out.next
    /\ resp.out.user_id \notin DOMAIN users
    /\ resp.at = AtSecond(session.token.exp) - 1
    /\ spent # {}

\* the rows other than id are the same before and after the step
OthersUntouched(id) ==
    \A i \in (DOMAIN users \cup DOMAIN users') \ {id} :
        /\ i \in DOMAIN users \cap DOMAIN users'
        /\ users'[i] = users[i]

\* C20: GET, PUT and DELETE on /users/me read, modify or delete the record
\* whose id is the user_id of the presented token, and no other record.
C20_MeIsTokenUser ==
    [][ /\ ReturnedEarly("GetCurrentUser")
            => /\ users' = users
               /\ IF resp'.out.next
                  THEN /\ resp'.args.id = resp'.hdr[2].user_id
                       /\ resp'.user = FindByID(users, resp'.hdr[2].user_id).user
                  ELSE resp'.user = NoUser
        /\ ReturnedEarly("DeleteCurrentUser")
            => IF resp'.out.next
               THEN /\ resp'.hdr[2].user_id \notin DOMAIN users'
                    /\ OthersUntouched(resp'.hdr[2].user_id)
               ELSE users' = users
        /\ ReturnedEarly("UpdateCurrentUser") => users' = users
        /\ \A p \in Procs :
              (pc[p] = "idle" /\ pc'[p] = "save")
                  => /\ resp'.op = "UpdateCurrentUser" /\ resp'.out.next
                     /\ loc'[p].args.id = resp'.hdr[2].user_id
                     /\ loc'[p].user.id = resp'.hdr[2].user_id
                     /\ users' = users
        /\ \A p \in Procs :
              (pc[p] = "save" /\ pc'[p] = "idle")
                  => /\ OthersUntouched(loc[p].args.id)
                     /\ resp'.err = OK
                          => users'[loc[p].args.id]
                                = [users[loc[p].args.id] EXCEPT
                                      !.name = loc[p].args.name,
                                      !.email = loc[p].args.email]
      ]_vars

\* PUT /users/me has renamed the user of the kept token while a second user
\* is stored
C20_Witness ==
    /\ resp.op = "UpdateUser" /\ resp.err = OK
    /\ session # NoSession
    /\ resp.user.id = session.token.user_id
    /\ Cardinality(DOMAIN users) = 2
    /\ users[resp.user.id].name = "n2"
    /\ \E i \in DOMAIN users : users[i].name = "n1"

\* request p's UpdateUser call returns from Update in this step
ProfileSaved(p) ==
    /\ pc[p] = "save" /\ pc'[p] = "idle"
    /\ loc[p].op = "UpdateUser"

\* the row of request p's UpdateUser call now has the name and the email of
\* the request and is otherwise as it was; no other row has changed
ProfileWritten(p) ==
    LET id == loc[p].args.id
    IN  /\ resp'.err = OK
        /\ id \in DOMAIN users /\ id \in DOMAIN users'
        /\ users'[id] = [users[id] EXCEPT !.name = loc[p].args.name,
                                          !.email = loc[p].args.email]
        /\ OthersUntouched(id)

\* UpdateUser returns record-not-found without a write exactly when the id
\* does not resolve
ProfileNotFound ==
    /\ ReturnedEarly("UpdateUser")
          => /\ FindByID(users, resp'.args.id).err # OK
             /\ resp'.err = ErrRecordNotFound
             /\ users' = users
    /\ \A p \in Procs :
          (pc[p] = "idle" /\ pc'[p] = "save" /\ loc'[p].op = "UpdateUser")
              => /\ FindByID(users, loc'[p].args.id).err = OK
                 /\ users' = users

\* C21 as stated: UpdateUser fails with not-found and writes nothing when
\* the id does not resolve; otherwise name and email of that user become
\* the given values and nothing else changes.
C21_Original ==
    [][ /\ ProfileNotFound
        /\ \A p \in Procs : ProfileSaved(p) => ProfileWritten(p) ]_vars

\* C21 amended: the same, unless another user has the given email: then
\* UpdateUser fails with the store's conflict error and writes nothing.
C21_ProfileUpdate ==
    [][ /\ ProfileNotFound
        /\ \A p \in Procs :
              ProfileSaved(p)
                  => IF \E i \in DOMAIN users :
                           i # loc[p].args.id /\ users[i].email = loc[p].args.email
                     THEN resp'.err = ErrDuplicateKey /\ users' = users
                     ELSE ProfileWritten(p) ]_vars

\* UpdateUser has given a new name and email to a user with a pending reset
\* while a second user is stored
C21_Witness ==
    /\ resp.op = "UpdateUser" /\ resp.err = OK
    /\ Cardinality(DOMAIN users) = 2
    /\ resp.args.id \in DOMAIN users
    /\ users[resp.args.id].name = "n2"
    /\ users[resp.args.id].email = "e2"
    /\ users[resp.args.id].resetToken = "t1"
    /\ \E i \in DOMAIN users : users[i].email = "e1"

\* C22: DeleteUser removes the record of an id that is stored, after which
\* FindByID on that id reports record-not-found, and fails with
\* record-not-found, the store unchanged, when no user has the id.
C22_DeleteReportsMissing ==
    [][ \A p \in Procs :
          (pc[p] = "idle" /\ pc'[p] = "idle" /\ resp' # resp /\ resp'.op = "DeleteUser")
              => LET id == resp'.args.id
                 IN  IF id \in DOMAIN users
                     THEN /\ resp'.err = OK
                          /\ FindByID(users', id).err = ErrRecordNotFound
                          /\ OthersUntouched(id)
                     ELSE /\ resp'.err = ErrRecordNotFound
                          /\ users' = users ]_vars

\* request p's Register call has hashed its password and the store has
\* accepted the row in this step
Hashed(p) ==
    /\ pc[p] = "create" /\ pc'[p] = "idle"
    /\ resp'.err = OK

\* Register returns in this step because hashing the password failed
HashRefused == ReturnedEarly("Register") /\ resp'.err = ErrPasswordTooLong

\* C23 as stated: every password can be hashed, it verifies against its own
\* hash, and no other password verifies against that hash.
C23_Original ==
    [][ /\ ~HashRefused
        /\ \A p \in Procs :
              Hashed(p)
                  => \A q \in Accounts.passwords :
                        CompareHashAndPassword(users'[resp'.user.id].password, q)
                            <=> q = loc[p].args.password ]_vars

\* C23 amended: hashing fails exactly for passwords of more than 72 bytes;
\* a password of at most 72 bytes verifies against its own hash, and another
\* password verifies against that hash exactly when its first 72 bytes are
\* the same.
C23_HashVerify ==
    [][ /\ HashRefused <=> /\ ReturnedEarly("Register")
                           /\ resp'.err # ErrEmailExists
                           /\ resp'.args.password.len > BcryptMaxBytes
        /\ \A p \in Procs :
              Hashed(p)
                  => /\ loc[p].args.password.len <= BcryptMaxBytes
                     /\ \A q \in Accounts.passwords :
                            CompareHashAndPassword(users'[resp'.user.id].password, q)
                                <=> q.head = loc[p].args.password.head ]_vars

\* a 72-byte password has been registered; the stored hash accepts it and
\* the 73-byte password that extends it, and refuses a different one
C23_Witness ==
    /\ resp.op = "Register" /\ resp.err = OK
    /\ resp.args.password = PwShort1
    /\ resp.user.id \in DOMAIN users
    /\ CompareHashAndPassword(users[resp.user.id].password, PwShort1)
    /\ CompareHashAndPassword(users[resp.user.id].password, PwLong)
    /\ ~CompareHashAndPassword(users[resp.user.id].password, PwShort2)

\* C24: the write of an UpdateUser or RequestPasswordReset call never
\* changes the password hash of the user it writes, so a hash that a
\* concurrent ResetPassword has stored since the call read the row stays.
C24_ResetNotReverted ==
    [][ \A p \in Procs :
          (pc[p] = "save" /\ pc'[p] = "idle"
              /\ loc[p].op \in {"UpdateUser", "RequestPasswordReset"}
              /\ loc[p].user.id \in DOMAIN users)
              => users'[loc[p].user.id].password = users[loc[p].user.id].password ]_vars

\* C25: a reset token that a successful ResetPassword has consumed is never
\* found by the token lookup again.
C25_ConsumedNeverFound ==
    \A t \in spent : FindByPasswordResetToken(users, t).err # OK

\* request p's RequestPasswordReset call stores a token on a user that holds
\* a different one
TokenReplaced(p) ==
    /\ ResetStored(p)
    /\ resp'.err = OK
    /\ loc[p].user.id \in DOMAIN users
    /\ users[loc[p].user.id].resetToken \notin {NULL, loc[p].args.token}

\* C26: with requests handled one at a time, a second RequestPasswordReset
\* replaces the token and the expiry the user holds; ResetPassword with the
\* earlier token then fails with "invalid or expired reset token", the new
\* token is the one the lookup finds, and a ResetPassword that changes a
\* password presents the token its user holds at that moment.
C26_OneTokenOutstanding ==
    [][ \A p \in Procs :
          /\ TokenReplaced(p)
                => LET id == loc[p].user.id
                   IN  /\ users'[id].resetToken = loc[p].args.token
                       /\ users'[id].resetExpires = loc[p].user.resetExpires
                       /\ ResetLookup(users', users[id].resetToken, now).err
                              = ErrResetInvalid
                       /\ FindByPasswordResetToken(users', loc[p].args.token)
                              = [err |-> OK, user |-> users'[id]]
          /\ ResetSaved(p)
                => /\ loc[p].user.id \in DOMAIN users
                   /\ users[loc[p].user.id].resetToken = loc[p].args.token ]_vars

\* ResetPassword with t1 has been refused as invalid while the only user
\* ever registered holds t2, issued at tick 1, and the first password
C26_Witness ==
    /\ resp.op = "ResetPassword" /\ resp.err = ErrResetInvalid
    /\ resp.args.token = "t1"
    /\ nextID = 2 /\ DOMAIN users = {1}
    /\ users[1].resetToken = "t2"
    /\ users[1].resetExpires = 1 + ResetTicks
    /\ \E pw \in Resets.passwords :
          /\ pw # resp.args.password
          /\ CompareHashAndPassword(users[1].password, pw)

ProtectedWrites == {"UpdateCurrentUser", "UserHandlerUpdateUser"}
ProtectedDeletes == {"DeleteCurrentUser", "UserHandlerDeleteUser"}

\* C27: every store write caused by a request on a protected /users route
\* changes no record other than that of the user_id of the presented token.
C27_WritesOwnRecordOnly ==
    [][ /\ (resp' # resp /\ resp'.op \in ProtectedDeletes)
            => OthersUntouched(resp'.out.user_id)
        /\ \A p \in Procs :
              (ProfileSaved(p) /\ resp.op \in ProtectedWrites)
                  => OthersUntouched(resp.out.user_id) ]_vars

MeHandlers == {"GetCurrentUser", "UpdateCurrentUser", "DeleteCurrentUser"}

\* C28: GetUserIDFromContext returns 0 when user_id is absent or of a type
\* other than uint and float64, and whenever it returns 0 a /users/me
\* handler answers 401 "User not authenticated" without calling the use
\* case; it answers so in no other case.
C28_ZeroIsUnauthenticated ==
    [][ (resp' # resp /\ resp'.op \in MeHandlers)
          => LET c == resp'.hdr[1]
             IN  /\ c.type \notin {"uint", "float64"} => TypeSwitch(c) = 0
                 /\ resp'.out.user_id = TypeSwitch(c)
                 /\ TypeSwitch(c) = 0
                       => /\ resp'.out.status = 401
                          /\ resp'.out.error = ErrNotAuthenticated
                          /\ resp'.args.id = 0
                          /\ users' = users
                          /\ pc' = pc
                 /\ TypeSwitch(c) # 0 => resp'.out.status # 401 ]_vars

\* DELETE /users/me on a context that holds the int 1 under user_id has been
\* answered 401 while user 1 is stored
C28_Witness ==
    /\ resp.op = "DeleteCurrentUser"
    /\ resp.hdr = <<[type |-> "int", v |-> 1]>>
    /\ resp.out.status = 401 /\ resp.out.error = ErrNotAuthenticated
    /\ 1 \in DOMAIN users

\* C29: the auth handlers answer a use-case error with a fixed status and
\* the error's message as body: 500 for every error of Register, 401 for
\* every error of Login, 400 for every error of ResetPassword; on success
\* they answer 201, 200 and 200.
C29_FixedStatuses ==
    /\ resp.op = "Register"
          => LET h == HandleRegister(resp.err, resp.user)
             IN  IF resp.err # OK
                 THEN h = ErrorResponse(500, resp.err)
                 ELSE h.status = 201 /\ h.body = resp.user
    /\ resp.op = "Login"
          => LET h == HandleLogin(resp.err, resp.token)
             IN  IF resp.err # OK
                 THEN h = ErrorResponse(401, resp.err)
                 ELSE h.status = 200 /\ h.body.token = resp.token
    /\ resp.op = "ResetPassword"
          => LET h == HandleResetPassword(resp.err)
             IN  IF resp.err # OK
                 THEN h = ErrorResponse(400, resp.err)
                 ELSE h.status = 200 /\ h.message = PasswordResetDone

\* Register has refused an email that is taken and the handler answers 500
\* with "email already exists"
C29_Witness ==
    /\ resp.op = "Register" /\ resp.err = ErrEmailExists
    /\ HandleRegister(resp.err, resp.user).status = 500
    /\ HandleRegister(resp.err, resp.user).error = ErrEmailExists
    /\ \E i \in DOMAIN users : users[i].email = resp.args.email

\* request p's UpdateUser call returns nil in this step and the email it
\* was given is not the one the user had
EmailChanged(p) ==
    /\ ProfileSaved(p)
    /\ resp'.err = OK
    /\ loc[p].args.id \in DOMAIN users
    /\ users[loc[p].args.id].email # loc[p].args.email

\* C30: after a successful UpdateUser that changes the email of a user,
\* Login with the new email and the unchanged password succeeds with a token
\* for the same id, Login with the old email fails with "invalid email or
\* password", and a session token the client holds from before the update
\* is still accepted, resolves to that user and reads the updated name and
\* email.
C30_LoginFollowsEmail ==
    [][ \A p \in Procs :
          EmailChanged(p)
              => LET id == loc[p].args.id
                     old == users[id].email
                     out == AuthResult(Bearer(session.token), now)
                 IN  /\ \A pw \in Me.passwords :
                           /\ CompareHashAndPassword(users[id].password, pw)
                                 => LET r == LoginResult(users', loc[p].args.email, pw, now)
                                    IN  r.err = OK /\ r.token.user_id = id
                           /\ LoginResult(users', old, pw, now).err
                                 = ErrInvalidCredentials
                     /\ (session # NoSession /\ session.token.user_id = id)
                           => /\ out.next
                              /\ GetUserIDFromContext(out) = id
                              /\ FindByID(users', GetUserIDFromContext(out)).user
                                    = [users[id] EXCEPT !.name = loc[p].args.name,
                                                        !.email = loc[p].args.email]
      ]_vars

\* GET /users/me with the token the client holds reads name n2 and email e2
\* of the only user ever registered, and Login with e1 is refused
C30_Witness ==
    /\ resp.op = "GetCurrentUser" /\ resp.err = OK
    /\ session # NoSession /\ resp.out.next
    /\ nextID = 2
    /\ resp.user.id = session.token.user_id
    /\ resp.user.name = "n2" /\ resp.user.email = "e2"
    /\ LoginResult(users, "e1", PwShort1, now).err = ErrInvalidCredentials
    /\ LoginResult(users, "e2", PwShort1, now).err = OK

=============================================================================
